---- MODULE Spec2Model ----
(***************************************************************************)
(* A model of data-extraction-script.py: the leave-calendar loader, the    *)
(* report scanner, the attendance extractor, the leave merge and the two   *)
(* report writers, as one sequential program.                              *)
(*                                                                         *)
(* Python strings on which the script does string work (split, strip,      *)
(* replace, substring search, strptime) are sequences of one-character     *)
(* strings.  A datetime is a triple <<year, month, day>>: every datetime   *)
(* the script parses is a midnight, and a leave cell with a time of day,   *)
(* which equals no folder date, is left out.  A spreadsheet cell is a      *)
(* record [t, v]: t is the Python type of the value ("str", "datetime",    *)
(* "none", "int") and v the value.                                         *)
(***************************************************************************)
EXTENDS Integers, Sequences, FiniteSets, Bags, TLC

(***************************************************************************)
(* Bounds of the model.                                                    *)
(***************************************************************************)
\* Length of the email_list command-line argument, in characters.
MaxArgLen == 4
\* Days of January 2024 that folder names, leave rows and the range use.
NumDays == 2
\* Rows of the leave sheet below its header.
MaxLeaveRows == 2

(***************************************************************************)
(* Python string and list primitives.                                      *)
(***************************************************************************)
Range(s) == {s[i] : i \in 1..Len(s)}

Abs(x) == IF x < 0 THEN -x ELSE x

DigitChars == <<"0", "1", "2", "3", "4", "5", "6", "7", "8", "9">>

IsDigit(c) == c \in Range(DigitChars)

DigitVal(c) == (CHOOSE i \in 1..10 : DigitChars[i] = c) - 1

\* int(s) for a non-empty string of digits
RECURSIVE DigitsVal(_)
DigitsVal(s) ==
    IF s = <<>> THEN 0
    ELSE 10 * DigitsVal(SubSeq(s, 1, Len(s) - 1)) + DigitVal(s[Len(s)])

\* str(n) for n >= 0
RECURSIVE IntToStr(_)
IntToStr(n) ==
    IF n < 10 THEN <<DigitChars[n + 1]>>
    ELSE IntToStr(n \div 10) \o <<DigitChars[(n % 10) + 1]>>

\* n formatted with at least w digits, zero padded (%Y is w = 4, %m and %d w = 2)
RECURSIVE ZeroPad(_, _)
ZeroPad(s, w) == IF Len(s) >= w THEN s ELSE ZeroPad(<<"0">> \o s, w)

StartsWithAt(s, sub, i) ==
    /\ i + Len(sub) - 1 <= Len(s)
    /\ \A k \in 1..Len(sub) : s[i + k - 1] = sub[k]

\* sub in s
Contains(s, sub) == \E i \in 1..(Len(s) + 1) : StartsWithAt(s, sub, i)

\* s.endswith(suf)
EndsWith(s, suf) ==
    /\ Len(suf) <= Len(s)
    /\ SubSeq(s, Len(s) - Len(suf) + 1, Len(s)) = suf

\* s.replace(old, new), old non-empty: leftmost non-overlapping occurrences
RECURSIVE ReplaceFrom(_, _, _, _)
ReplaceFrom(s, old, new, i) ==
    IF i > Len(s) THEN <<>>
    ELSE IF StartsWithAt(s, old, i)
         THEN new \o ReplaceFrom(s, old, new, i + Len(old))
         ELSE <<s[i]>> \o ReplaceFrom(s, old, new, i + 1)

Replace(s, old, new) == ReplaceFrom(s, old, new, 1)

\* s.split(c) for a one-character separator: the fields, empty ones kept
RECURSIVE SplitOn(_, _)
SplitOn(s, c) ==
    IF \A i \in 1..Len(s) : s[i] # c THEN <<s>>
    ELSE LET i == CHOOSE j \in 1..Len(s) :
                      s[j] = c /\ \A k \in 1..(j - 1) : s[k] # c
         IN  <<SubSeq(s, 1, i - 1)>> \o SplitOn(SubSeq(s, i + 1, Len(s)), c)

\* s.strip(): leading and trailing blanks removed
RECURSIVE Strip(_)
Strip(s) ==
    IF s = <<>> THEN s
    ELSE IF s[1] = " " THEN Strip(Tail(s))
    ELSE IF s[Len(s)] = " " THEN Strip(SubSeq(s, 1, Len(s) - 1))
    ELSE s

\* the non-empty members of a list of strings, in order
RECURSIVE NonEmpty(_)
NonEmpty(ss) ==
    IF ss = <<>> THEN <<>>
    ELSE IF Head(ss) = <<>> THEN NonEmpty(Tail(ss))
    ELSE <<Head(ss)>> \o NonEmpty(Tail(ss))

\* s.split(): the maximal runs of non-blank characters
SplitWs(s) == NonEmpty(SplitOn(s, " "))

(***************************************************************************)
(* datetime.strptime(s, '%Y-%m-%d') and datetime.strftime('%Y-%m-%d').     *)
(***************************************************************************)
ValueError == <<0, 0, 0>>

IsLeap(y) == (y % 4 = 0 /\ y % 100 # 0) \/ y % 400 = 0

DaysInMonth(y, m) ==
    IF m = 2 THEN (IF IsLeap(y) THEN 29 ELSE 28)
    ELSE IF m \in {4, 6, 9, 11} THEN 30 ELSE 31

AllDigits(s) == \A i \in 1..Len(s) : IsDigit(s[i])

\* %m: 1[0-2]|0[1-9]|[1-9]
MonthField(s) ==
    /\ Len(s) \in {1, 2}
    /\ AllDigits(s)
    /\ DigitsVal(s) \in 1..12

\* %d: 3[01]|[12]\d|0[1-9]|[1-9]| [1-9]
DayField(s) ==
    \/ /\ Len(s) \in {1, 2}
       /\ AllDigits(s)
       /\ DigitsVal(s) \in 1..31
    \/ /\ Len(s) = 2
       /\ s[1] = " "
       /\ IsDigit(s[2])
       /\ DigitVal(s[2]) \in 1..9

\* The datetime parsed from s, or ValueError when s does not match the
\* format, leaves data unconverted or names no calendar day.
StrpTime(s) ==
    LET f == SplitOn(s, "-")
    IN  IF /\ Len(f) = 3
           /\ Len(f[1]) = 4
           /\ AllDigits(f[1])
           /\ MonthField(f[2])
           /\ DayField(f[3])
        THEN LET y == DigitsVal(f[1])
                 m == DigitsVal(f[2])
                 d == DigitsVal(Strip(f[3]))
             IN  IF y >= 1 /\ d <= DaysInMonth(y, m)
                 THEN <<y, m, d>>
                 ELSE ValueError
        ELSE ValueError

StrfTime(dt) ==
    ZeroPad(IntToStr(dt[1]), 4) \o <<"-">> \o ZeroPad(IntToStr(dt[2]), 2)
        \o <<"-">> \o ZeroPad(IntToStr(dt[3]), 2)

\* a <= b on datetimes
DateLeq(a, b) ==
    \/ a[1] < b[1]
    \/ a[1] = b[1] /\ a[2] < b[2]
    \/ a[1] = b[1] /\ a[2] = b[2] /\ a[3] <= b[3]

(***************************************************************************)
(* Percentages:  f"{count / total * 100:.2f}%".                            *)
(***************************************************************************)
\* num / den * 100 rounded to hundredths (half to even, as the format
\* rounds), in hundredths of a percent; den > 0.  The quotient is taken
\* exactly: the float the script formats lies within one unit in the last
\* place of it, which changes no digit for the counts explored here.
Hundredths(num, den) ==
    LET q == (10000 * num) \div den
        r == (10000 * num) % den
    IN  IF 2 * r > den \/ (2 * r = den /\ q % 2 = 1) THEN q + 1 ELSE q

\* f"{h / 100:.2f}%"
PctText(h) ==
    IntToStr(h \div 100) \o <<".">> \o ZeroPad(IntToStr(h % 100), 2) \o <<"%">>

\* (count / total * 100) if total > 0 else 0, formatted
FormatPct(count, total) ==
    PctText(IF total > 0 THEN Hundredths(count, total) ELSE 0)

(***************************************************************************)
(* Spreadsheet cells and the inputs of a run.                              *)
(***************************************************************************)
StrCell(s) == [t |-> "str", v |-> s]

DateCell(dt) == [t |-> "datetime", v |-> dt]

NoneCell == [t |-> "none", v |-> <<>>]

IntCell == [t |-> "int", v |-> <<>>]

\* bool(cell): None and the empty string are falsy
Truthy(cell) == cell.t # "none" /\ ~(cell.t = "str" /\ cell.v = <<>>)

Day(d) == <<2024, 1, d>>

Days == {Day(d) : d \in 1..NumDays}

\* an email_list argument: words of the letter a separated by blanks
ArgChars == {"a", " "}

EmailArgs == UNION {[1..n -> ArgChars] : n \in 0..MaxArgLen}

VARIABLES
    pc,           \* where the program is
    meeting_name, \* main: args.meeting_name
    email_list,   \* main: args.email_list.split()
    start_date,   \* main: start of the range
    end_date,     \* main: end of the range
    sheet,        \* the leave workbook: [ok, rows]
    li,           \* read_leave_data: the next row of the sheet
    leave_data,   \* the LeaveCalendar: datetime -> set of emails
    tmp_exists,   \* the scratch directory exists
    todo,         \* entries of the reports directory not yet listed
    folder_date,  \* process_excel_files: the date of the folder
    email_index,  \* process_excel_files: the column of 'Email'
    result_dict,  \* the AttendanceMap, in insertion order
    files,        \* the names that exist in the working directory
    compiled,     \* the per-date workbook as saved
    individual,   \* the per-individual workbook as saved
    error,        \* the exception that ended the run, or "none"
    listed,       \* history: <<date, email>> report cells read so far
    dup,          \* history: some roster cell was read a second time
    qualified,    \* history: dates of the folders that passed the filters
    pre_merge,    \* history: result_dict when the leave merge began
    clobbered     \* history: names that existed when they were saved to

vars == <<pc, meeting_name, email_list, start_date, end_date, sheet, li, leave_data,
          tmp_exists, todo, folder_date, email_index, result_dict, files,
          compiled, individual, error, listed, dup, qualified, pre_merge,
          clobbered>>

NoDate == <<0, 0, 0>>

NoWorkbook == [written |-> FALSE, name |-> <<>>, rows |-> <<>>, total |-> <<>>]

\* The state when main is entered, in a working directory holding fs.
Start(fs) ==
    /\ pc = "main"
    /\ meeting_name = <<>>
    /\ email_list = <<>>
    /\ start_date = NoDate
    /\ end_date = NoDate
    /\ sheet = [ok |-> FALSE, rows |-> <<>>]
    /\ li = 1
    /\ leave_data = <<>>
    /\ tmp_exists = FALSE
    /\ todo = {}
    /\ folder_date = NoDate
    /\ email_index = 0
    /\ result_dict = <<>>
    /\ files = fs
    /\ compiled = NoWorkbook
    /\ individual = NoWorkbook
    /\ error = "none"
    /\ listed = {}
    /\ dup = FALSE
    /\ qualified = {}
    /\ pre_merge = <<>>
    /\ clobbered = {}

(***************************************************************************)
(* main, up to the call of read_leave_data.  Args is the set of command    *)
(* lines: records of the four string arguments the script parses itself.   *)
(***************************************************************************)
Main(Args) ==
    /\ pc = "main"
    /\ \E args \in Args :
          LET s == StrpTime(args.start_date)
              e == StrpTime(args.end_date)
          IN  IF s = ValueError \/ e = ValueError
              THEN /\ pc' = "raised"
                   /\ error' = "ValueError"
                   /\ UNCHANGED <<meeting_name, email_list, start_date,
                                  end_date>>
              ELSE /\ pc' = "read_leave_data"
                   /\ meeting_name' = args.meeting_name
                   /\ start_date' = s
                   /\ end_date' = e
                   /\ email_list' = SplitWs(args.email_list)
                   /\ error' = "none"
    /\ UNCHANGED <<sheet, li, leave_data, tmp_exists, todo, folder_date,
                   email_index, result_dict, files, compiled, individual,
                   listed, dup, qualified, pre_merge, clobbered>>

(***************************************************************************)
(* read_leave_data.                                                        *)
(***************************************************************************)
\* {email.strip() for email in emails.split(",") if email.strip()}
EmailSet(emails) ==
    {Strip(f) : f \in {g \in Range(SplitOn(emails, ",")) : Strip(g) # <<>>}}

\* leave_data after leave_data[date]['attendees'].update(email_set), the
\* entry created when the date is new
LeaveUpdate(ld, date, email_set) ==
    IF date \in DOMAIN ld
    THEN [ld EXCEPT ![date] = @ \cup email_set]
    ELSE [d \in DOMAIN ld \cup {date} |->
            IF d = date THEN email_set ELSE ld[d]]

\* What one row does: "skip" (continue), "raise" (an exception, which the
\* try around the loop catches) or "update".
LeaveRowOutcome(row) ==
    IF row[1].t = "str" /\ StrpTime(row[1].v) = ValueError THEN "raise"
    ELSE IF row[1].t \notin {"str", "datetime"} THEN "skip"
    ELSE IF Truthy(row[2]) /\ row[2].t # "str" THEN "raise"
    ELSE "update"

LeaveRowDate(row) == IF row[1].t = "str" THEN StrpTime(row[1].v) ELSE row[1].v

LeaveRowEmails(row) == EmailSet(IF Truthy(row[2]) THEN row[2].v ELSE <<>>)

\* load_workbook and sheet.active, of a workbook drawn from Sheets; a
\* workbook that cannot be read leaves leave_data empty
ReadLeaveOpen(Sheets) ==
    /\ pc = "read_leave_data"
    /\ \E sh \in Sheets :
          /\ sheet' = sh
          /\ pc' = IF sh.ok THEN "leave_rows" ELSE "leave_return"
    /\ leave_data' = <<>>
    /\ li' = 1
    /\ UNCHANGED <<meeting_name, email_list, start_date, end_date,
                   tmp_exists, todo, folder_date, email_index, result_dict,
                   files, compiled, individual, error, listed, dup,
                   qualified, pre_merge, clobbered>>

\* one iteration of the loop over sheet.iter_rows(min_row=2)
ReadLeaveRow ==
    /\ pc = "leave_rows"
    /\ li <= Len(sheet.rows)
    /\ LET row == sheet.rows[li]
           out == LeaveRowOutcome(row)
       IN  /\ leave_data' = IF out = "update"
                            THEN LeaveUpdate(leave_data, LeaveRowDate(row),
                                             LeaveRowEmails(row))
                            ELSE leave_data
           /\ pc' = IF out = "raise" THEN "leave_return" ELSE "leave_rows"
           /\ li' = IF out = "raise" THEN li ELSE li + 1
    /\ UNCHANGED <<meeting_name, email_list, start_date, end_date, sheet, tmp_exists,
                   todo, folder_date, email_index, result_dict, files,
                   compiled, individual, error, listed, dup, qualified,
                   pre_merge, clobbered>>

\* the loop over the rows ends
ReadLeaveDone ==
    /\ pc = "leave_rows"
    /\ li > Len(sheet.rows)
    /\ pc' = "leave_return"
    /\ UNCHANGED <<meeting_name, email_list, start_date, end_date, sheet, li,
                   leave_data, tmp_exists, todo, folder_date, email_index,
                   result_dict, files, compiled, individual, error, listed,
                   dup, qualified, pre_merge, clobbered>>

\* return leave_data: the workbook and the row position are locals of
\* read_leave_data and end with it
ReadLeaveReturn ==
    /\ pc = "leave_return"
    /\ pc' = "compile"
    /\ sheet' = [ok |-> FALSE, rows |-> <<>>]
    /\ li' = 1
    /\ UNCHANGED <<meeting_name, email_list, start_date, end_date,
                   leave_data, tmp_exists, todo, folder_date, email_index,
                   result_dict, files, compiled, individual, error, listed,
                   dup, qualified, pre_merge, clobbered>>

(***************************************************************************)
(* compile_attendee_data: the scratch directory and the scan.              *)
(***************************************************************************)
inputV == <<meeting_name, email_list, start_date, end_date>>

leaveV == <<sheet, li, leave_data>>

scanV == <<todo, folder_date, email_index, result_dict, listed, dup,
           qualified>>

outV == <<files, compiled, individual, clobbered>>

\* Whether the scratch directory exists once the with block of
\* tempfile.TemporaryDirectory is left, normally or by an exception.
TempDirLeak(raised) == raised

TempDirExit(raised) == FALSE

\* An exception leaves compile_attendee_data through the with block.
Raise(exc) ==
    /\ pc' = "raised"
    /\ error' = exc
    /\ tmp_exists' = TempDirExit(TRUE)

\* with tempfile.TemporaryDirectory() as temp_dir
EnterTemp ==
    /\ pc = "compile"
    /\ tmp_exists' = TRUE
    /\ pc' = "extract_zip"
    /\ UNCHANGED <<inputV, leaveV, scanV, outV, error, pre_merge>>

\* extract_zip: the archive extracts, or is missing or no zip file
ExtractZip ==
    /\ pc = "extract_zip"
    /\ \E ok \in BOOLEAN :
          IF ok
          THEN pc' = "list_top" /\ UNCHANGED <<error, tmp_exists>>
          ELSE Raise("BadZipFile")
    /\ UNCHANGED <<inputV, leaveV, scanV, outV, pre_merge>>

\* os.listdir(temp_dir)[0] and os.listdir(meeting_reports_dir): an empty
\* archive, a plain file as the first entry, or a directory whose entries
\* are drawn from Listings
ListTop(Listings) ==
    /\ pc = "list_top"
    /\ \E top \in {"empty", "file", "dir"} :
          CASE top = "empty" -> Raise("IndexError") /\ UNCHANGED todo
            [] top = "file" -> Raise("NotADirectoryError") /\ UNCHANGED todo
            [] top = "dir" ->
                 /\ \E entries \in Listings : todo' = entries
                 /\ pc' = "folders"
                 /\ UNCHANGED <<error, tmp_exists>>
    /\ UNCHANGED <<inputV, leaveV, folder_date, email_index, result_dict,
                   listed, dup, qualified, outV, pre_merge>>

\* the date in the leading token of a folder name, or ValueError
FolderDate(name) == StrpTime(SplitOn(name, " ")[1])

\* Why the scanner skips a directory entry, or "process" when the entry
\* passes its filters (lines 60-73).
FolderFilter(entry, meeting, start, end) ==
    IF ~entry.isdir THEN "not a directory"
    ELSE IF FolderDate(entry.name) = ValueError THEN "invalid folder name"
    ELSE IF ~(/\ DateLeq(start, FolderDate(entry.name))
              /\ DateLeq(FolderDate(entry.name), end)) THEN "out of range"
    ELSE IF ~Contains(entry.name, meeting) THEN "meeting not found"
    ELSE "process"

\* one iteration of the loop over os.listdir(meeting_reports_dir), up to the
\* call of process_excel_files
NextFolder ==
    /\ pc = "folders"
    /\ \E entry \in todo :
          /\ todo' = todo \ {entry}
          /\ IF FolderFilter(entry, meeting_name, start_date, end_date)
                   = "process"
             THEN /\ pc' = "files"
                  /\ folder_date' = FolderDate(entry.name)
                  /\ qualified' = qualified \cup {FolderDate(entry.name)}
             ELSE UNCHANGED <<pc, folder_date, qualified>>
    /\ UNCHANGED <<inputV, leaveV, tmp_exists, email_index, result_dict,
                   listed, dup, outV, error, pre_merge>>

\* the loop over the folders ends
FoldersDone ==
    /\ pc = "folders"
    /\ todo = {}
    /\ pc' = "merge"
    /\ UNCHANGED <<inputV, leaveV, tmp_exists, scanV, outV, error, pre_merge>>

(***************************************************************************)
(* process_excel_files.  result_dict is a Python dict: a sequence of       *)
(* entries [date, attendees] with distinct dates, in insertion order.      *)
(***************************************************************************)
Keys(rd) == {rd[i].date : i \in 1..Len(rd)}

\* a plausible slip: the entry is assigned, not fetched with setdefault
AssignEntry(rd, date, email) ==
    IF date \in Keys(rd)
    THEN [i \in 1..Len(rd) |->
            IF rd[i].date = date THEN [rd[i] EXCEPT !.attendees = {email}]
            ELSE rd[i]]
    ELSE Append(rd, [date |-> date, attendees |-> {email}])

\* rd.setdefault(date, {'attendees': set()})['attendees'].add(email)
SetDefaultAdd(rd, date, email) ==
    IF date \in Keys(rd)
    THEN [i \in 1..Len(rd) |->
            IF rd[i].date = date
            THEN [rd[i] EXCEPT !.attendees = @ \cup {email}]
            ELSE rd[i]]
    ELSE Append(rd, [date |-> date, attendees |-> {email}])

\* cell in email_list: a list of strings holds no None and no number
InEmailList(cell, roster) == cell.t = "str" /\ cell.v \in Range(roster)

\* a plausible slip: the entry is created before the roster test
RowEffectEager(rd, date, roster, cell) ==
    IF InEmailList(cell, roster) THEN SetDefaultAdd(rd, date, cell.v)
    ELSE IF date \in Keys(rd) THEN rd
    ELSE Append(rd, [date |-> date, attendees |-> {}])

\* result_dict after one row whose email cell is cell (lines 113-116)
RowEffect(rd, date, roster, cell) ==
    IF InEmailList(cell, roster) THEN SetDefaultAdd(rd, date, cell.v) ELSE rd

\* header.index('Email'), counted from 1
EmailIndex(header) ==
    CHOOSE i \in 1..Len(header) :
        header[i] = "Email" /\ \A k \in 1..(i - 1) : header[k] # "Email"

XlsxSuffix == <<".", "x", "l", "s", "x">>

ReportFileNames == {<<"r">> \o XlsxSuffix, <<"r", ".", "c", "s", "v">>}

ReportHeaders == {<<"Email", "Name">>, <<"Name", "Email">>,
                  <<"Name", "email">>}

\* the files a folder may hold
ReportFiles == [name : ReportFileNames, loads : BOOLEAN, header : ReportHeaders]

ReportCells == {StrCell(<<"a">>), StrCell(<<"a", "a">>), StrCell(<<"z">>),
                NoneCell}

ReportRows == [1..2 -> ReportCells]

\* one iteration of the loop over os.listdir(folder_path), up to the loop
\* over the rows
NextFile ==
    /\ pc = "files"
    /\ \E f \in ReportFiles :
          IF /\ EndsWith(f.name, XlsxSuffix)
             /\ f.loads
             /\ "Email" \in Range(f.header)
          THEN /\ pc' = "rows"
               /\ email_index' = EmailIndex(f.header)
          ELSE UNCHANGED <<pc, email_index>>
    /\ UNCHANGED <<inputV, leaveV, tmp_exists, todo, folder_date, result_dict,
                   listed, dup, qualified, outV, error, pre_merge>>

\* the loop over the files ends and process_excel_files returns
FilesDone ==
    /\ pc = "files"
    /\ pc' = "folders"
    /\ folder_date' = NoDate
    /\ UNCHANGED <<inputV, leaveV, tmp_exists, todo, email_index, result_dict,
                   listed, dup, qualified, outV, error, pre_merge>>

\* one iteration of the loop over sheet.iter_rows(min_row=2)
NextRow ==
    /\ pc = "rows"
    /\ \E row \in ReportRows :
          LET cell == row[email_index]
          IN  /\ result_dict' = RowEffect(result_dict, folder_date, email_list,
                                          cell)
              /\ listed' = IF cell.t = "str"
                           THEN listed \cup {<<folder_date, cell.v>>}
                           ELSE listed
              /\ dup' = (dup \/ (/\ InEmailList(cell, email_list)
                                 /\ <<folder_date, cell.v>> \in listed))
    /\ UNCHANGED <<pc, inputV, leaveV, tmp_exists, todo, folder_date,
                   email_index, qualified, outV, error, pre_merge>>

\* the rows end, or reading them raises and the file is given up
RowsDone ==
    /\ pc = "rows"
    /\ pc' = "files"
    /\ email_index' = 0
    /\ UNCHANGED <<inputV, leaveV, tmp_exists, todo, folder_date, result_dict,
                   listed, dup, qualified, outV, error, pre_merge>>

(***************************************************************************)
(* The leave merge (lines 79-84).                                          *)
(***************************************************************************)
\* a plausible slip: the filtered leave set replaces the attendee set
MergeDateAssign(rd, date, on_leave, roster) ==
    IF date \in Keys(rd)
    THEN [i \in 1..Len(rd) |->
            IF rd[i].date = date
            THEN [rd[i] EXCEPT !.attendees = on_leave \cap Range(roster)]
            ELSE rd[i]]
    ELSE rd

\* a plausible slip: the leave set is merged without the roster filter
MergeDateUnfiltered(rd, date, on_leave, roster) ==
    IF date \in Keys(rd)
    THEN [i \in 1..Len(rd) |->
            IF rd[i].date = date
            THEN [rd[i] EXCEPT !.attendees = @ \cup on_leave]
            ELSE rd[i]]
    ELSE rd

\* one iteration of the loop over leave_data.items()
MergeDate(rd, date, on_leave, roster) ==
    IF date \in Keys(rd)
    THEN [i \in 1..Len(rd) |->
            IF rd[i].date = date
            THEN [rd[i] EXCEPT
                    !.attendees = @ \cup (on_leave \cap Range(roster))]
            ELSE rd[i]]
    ELSE rd

\* the loop over the dates of leave_data still to visit
RECURSIVE MergeLoop(_, _, _, _)
MergeLoop(rd, ld, dates, roster) ==
    IF dates = {} THEN rd
    ELSE LET d == CHOOSE x \in dates : TRUE
         IN  MergeLoop(MergeDate(rd, d, ld[d], roster), ld, dates \ {d},
                       roster)

LeaveMerge ==
    /\ pc = "merge"
    /\ pre_merge' = result_dict
    /\ result_dict' = MergeLoop(result_dict, leave_data, DOMAIN leave_data,
                                email_list)
    /\ pc' = "save_to_excel"
    /\ UNCHANGED <<inputV, leaveV, tmp_exists, todo, folder_date, email_index,
                   listed, dup, qualified, outV, error>>

(***************************************************************************)
(* generate_output_filename.                                               *)
(***************************************************************************)
RnDPrefix == <<"R", "n", "D", "_">>

DataSuffix == <<"_", "D", "a", "t", "a">>

CsvSuffix == <<".", "c", "s", "v">>

IndividualSuffix ==
    <<"_", "I", "n", "d", "i", "v", "i", "d", "u", "a", "l",
      "_", "A", "t", "t", "e", "n", "d", "a", "n", "c", "e">>

\* f'RnD_{meeting_name.replace(" ", "_")}_Data'
BaseName(meeting) == RnDPrefix \o Replace(meeting, <<" ">>, <<"_">>) \o DataSuffix

\* the while loop: name is the candidate, count the next suffix
RECURSIVE FreeName(_, _, _, _)
FreeName(base, name, count, fs) ==
    IF name \in fs
    THEN FreeName(base, base \o <<"_">> \o IntToStr(count) \o XlsxSuffix,
                  count + 1, fs)
    ELSE name

GenerateOutputFilename(meeting, fs) ==
    FreeName(BaseName(meeting), BaseName(meeting) \o XlsxSuffix, 1, fs)

\* generate_output_filename(...).replace('.csv', '.xlsx'): the name saved to
OutputName(meeting, fs) ==
    Replace(GenerateOutputFilename(meeting, fs), CsvSuffix, XlsxSuffix)

(***************************************************************************)
(* save_to_excel.  The 'Attendee Emails' cell is kept as the set it joins. *)
(***************************************************************************)
RECURSIVE SumCounts(_)
SumCounts(rd) ==
    IF rd = <<>> THEN 0
    ELSE Cardinality(Head(rd).attendees) + SumCounts(Tail(rd))

\* the row appended for each entry of result_dict
DateRows(rd, total_attendees) ==
    [i \in 1..Len(rd) |->
        [date |-> StrfTime(rd[i].date),
         attendees |-> rd[i].attendees,
         pct |-> FormatPct(Cardinality(rd[i].attendees), total_attendees)]]

\* line 134 divides by len(result_dict) * total_attendees
OverallRaises(rd, total_attendees) ==
    total_attendees > 0 /\ Len(rd) * total_attendees = 0

OverallPct(rd, total_attendees) ==
    FormatPct(SumCounts(rd),
              IF total_attendees > 0 THEN Len(rd) * total_attendees ELSE 0)

SaveToExcel ==
    /\ pc = "save_to_excel"
    /\ LET name == OutputName(meeting_name, files)
           total_attendees == Len(email_list)
       IN  IF OverallRaises(result_dict, total_attendees)
           THEN Raise("ZeroDivisionError") /\ UNCHANGED outV
           ELSE \E saved \in BOOLEAN :
                   IF saved
                   THEN /\ compiled' =
                             [written |-> TRUE, name |-> name,
                              rows |-> DateRows(result_dict, total_attendees),
                              total |-> OverallPct(result_dict,
                                                   total_attendees)]
                        /\ files' = files \cup {name}
                        /\ clobbered' = clobbered \cup ({name} \cap files)
                        /\ pc' = "save_individual"
                        /\ UNCHANGED <<individual, error, tmp_exists>>
                   ELSE Raise("OSError") /\ UNCHANGED outV
    /\ UNCHANGED <<inputV, leaveV, scanV, pre_merge>>

(***************************************************************************)
(* save_individual_attendee_percentages.                                   *)
(***************************************************************************)
\* attendee_counts after the counting pass over rd: attendee -> count
RECURSIVE CountPass(_, _)
CountPass(rd, counts) ==
    IF rd = <<>> THEN counts
    ELSE CountPass(Tail(rd),
            [a \in DOMAIN counts \cup Head(rd).attendees |->
                (IF a \in DOMAIN counts THEN counts[a] ELSE 0)
                + (IF a \in Head(rd).attendees THEN 1 ELSE 0)])

\* a plausible slip: the roster size taken for the number of meetings
TotalMeetingsRoster(rd, roster) == Len(roster)

\* total_meetings = len(result_dict)
TotalMeetings(rd, roster) == Len(rd)

\* the rows appended, one for each item of attendee_counts, as a bag
IndividualRows(rd, roster) ==
    LET counts == CountPass(rd, <<>>)
    IN  SetToBag({[attendee |-> a,
                   pct |-> FormatPct(counts[a], TotalMeetings(rd, roster))] :
                  a \in DOMAIN counts})

SaveIndividual ==
    /\ pc = "save_individual"
    /\ LET name == OutputName(meeting_name \o IndividualSuffix, files)
       IN  \E saved \in BOOLEAN :
              IF saved
              THEN /\ individual' =
                        [written |-> TRUE, name |-> name,
                         rows |-> IndividualRows(result_dict, email_list),
                         total |-> <<>>]
                   /\ files' = files \cup {name}
                   /\ clobbered' = clobbered \cup ({name} \cap files)
                   /\ pc' = "returned"
                   /\ tmp_exists' = TempDirExit(FALSE)
                   /\ UNCHANGED <<compiled, error>>
              ELSE Raise("OSError") /\ UNCHANGED outV
    /\ UNCHANGED <<inputV, leaveV, scanV, pre_merge>>

(***************************************************************************)
(* The inputs of the runs explored and the three specifications.  Every    *)
(* specification runs the whole program; they differ in which input is     *)
(* varied.                                                                 *)
(***************************************************************************)
Standup == <<"S", "t", "a", "n", "d", "u", "p">>

\* a directory named "<date> Standup<more>"
Folder(dt, more) ==
    [name |-> StrfTime(dt) \o <<" ">> \o Standup \o more, isdir |-> TRUE]

\* a folder for the first and for the last day, and a second folder for the
\* first day
CoreEntries ==
    {Folder(Day(1), <<>>), Folder(Day(NumDays), <<>>),
     Folder(Day(1), <<" ", "b">>)}

\* entries the scanner skips, one for each filter
SkipEntries ==
    {[name |-> <<"n", "o", "t", "e", "s">>, isdir |-> FALSE],
     [name |-> <<"x", " ">> \o Standup, isdir |-> TRUE],
     [name |-> StrfTime(<<2024, 2, 1>>) \o <<" ">> \o Standup, isdir |-> TRUE],
     [name |-> StrfTime(Day(1)) \o <<" ", "T">>, isdir |-> TRUE]}

Listings == {CoreEntries \cup {e} : e \in SkipEntries}

OneListing == {{Folder(Day(1), <<>>)}}

BadDate == <<"x">>

\* command lines: every email_list argument, the range of all the days
Args ==
    [email_list : EmailArgs, meeting_name : {Standup},
     start_date : {StrfTime(Day(1))}, end_date : {StrfTime(Day(NumDays))}]
    \cup
    [email_list : {<<"a">>}, meeting_name : {Standup},
     start_date : {BadDate}, end_date : {StrfTime(Day(1))}]

OneArgs ==
    [email_list : {<<"a">>}, meeting_name : {Standup},
     start_date : {StrfTime(Day(1))}, end_date : {StrfTime(Day(NumDays))}]

Unreadable == [ok |-> FALSE, rows |-> <<>>]

Workbook(rows) == [ok |-> TRUE, rows |-> rows]

CommaList == <<"a", ",", " ", "z">>

\* leave workbooks for the runs that vary the reports
Sheets ==
    {Unreadable,
     Workbook(<< <<DateCell(Day(1)), StrCell(CommaList)>>,
                 <<StrCell(StrfTime(Day(NumDays))), StrCell(<<"a", "a">>)>> >>)}

\* the rows a leave sheet is made of
LeaveDateCells ==
    {DateCell(dt) : dt \in Days} \cup {StrCell(StrfTime(dt)) : dt \in Days}
        \cup {StrCell(BadDate), NoneCell}

LeaveEmailCells == {NoneCell, IntCell, StrCell(<<"a">>), StrCell(CommaList)}

LeaveRows == {<<d, e>> : d \in LeaveDateCells, e \in LeaveEmailCells}

AllSheets ==
    {Unreadable} \cup
    {Workbook(rows) : rows \in UNION {[1..n -> LeaveRows] : n \in 0..MaxLeaveRows}}

\* the pipeline with the reports, the roster and the leave calendar varied
Init == Start({})

Next ==
    \/ Main(Args)
    \/ ReadLeaveOpen(Sheets)
    \/ ReadLeaveRow
    \/ ReadLeaveDone
    \/ ReadLeaveReturn
    \/ EnterTemp
    \/ ExtractZip
    \/ ListTop(Listings)
    \/ NextFolder
    \/ FoldersDone
    \/ NextFile
    \/ FilesDone
    \/ NextRow
    \/ RowsDone
    \/ LeaveMerge
    \/ SaveToExcel
    \/ SaveIndividual

Spec == Init /\ [][Next]_vars

\* the pipeline with the leave sheet varied
NextLeave ==
    \/ Main(OneArgs)
    \/ ReadLeaveOpen(AllSheets)
    \/ ReadLeaveRow
    \/ ReadLeaveDone
    \/ ReadLeaveReturn
    \/ EnterTemp
    \/ ExtractZip
    \/ ListTop(OneListing)
    \/ NextFolder
    \/ FoldersDone
    \/ NextFile
    \/ FilesDone
    \/ NextRow
    \/ RowsDone
    \/ LeaveMerge
    \/ SaveToExcel
    \/ SaveIndividual

SpecLeave == Init /\ [][NextLeave]_vars

\* the pipeline with the meeting name and the working directory varied
SpacedName == <<"a", " ", "b">>

CsvName == <<"x">> \o CsvSuffix

MeetingNames == {Standup, SpacedName, CsvName}

NameArgs ==
    [email_list : {<<"a">>}, meeting_name : MeetingNames,
     start_date : {StrfTime(Day(1))}, end_date : {StrfTime(Day(NumDays))}]

\* one folder for each meeting name
NameListings ==
    {{[name |-> StrfTime(Day(1)) \o <<" ">> \o m, isdir |-> TRUE] :
        m \in MeetingNames}}

\* names that may exist in the working directory before the run
ExistingNames ==
    {RnDPrefix \o Standup \o DataSuffix \o XlsxSuffix,
     RnDPrefix \o Standup \o DataSuffix \o <<"_", "1">> \o XlsxSuffix,
     RnDPrefix \o Standup \o IndividualSuffix \o DataSuffix \o XlsxSuffix,
     RnDPrefix \o <<"a", "_", "b">> \o DataSuffix \o XlsxSuffix,
     RnDPrefix \o <<"x">> \o XlsxSuffix \o DataSuffix \o XlsxSuffix}

InitNames == \E fs \in SUBSET ExistingNames : Start(fs)

NextNames ==
    \/ Main(NameArgs)
    \/ ReadLeaveOpen(Sheets)
    \/ ReadLeaveRow
    \/ ReadLeaveDone
    \/ ReadLeaveReturn
    \/ EnterTemp
    \/ ExtractZip
    \/ ListTop(NameListings)
    \/ NextFolder
    \/ FoldersDone
    \/ NextFile
    \/ FilesDone
    \/ NextRow
    \/ RowsDone
    \/ LeaveMerge
    \/ SaveToExcel
    \/ SaveIndividual

SpecNames == InitNames /\ [][NextNames]_vars

(***************************************************************************)
(* Properties.                                                             *)
(***************************************************************************)
Terminal == pc \in {"returned", "raised"}

\* exceptions that come from the inputs and the file system, not from the
\* arithmetic of the writers
EnvErrors == {"ValueError", "BadZipFile", "IndexError", "NotADirectoryError",
              "OSError"}

\* the leave merge has run
Merged ==
    \/ pc \in {"save_to_excel", "save_individual", "returned"}
    \/ pc = "raised" /\ error \in {"ZeroDivisionError", "OSError"}

ZeroPct == <<"0", ".", "0", "0", "%">>

\* text is the two-decimal percentage nearest to 100 * num / den
IsPctOf(text, num, den) ==
    \E h \in 0..(10000 * (num + 1)) :
        /\ text = PctText(h)
        /\ 2 * Abs(h * den - 10000 * num) <= den

Roster == Range(email_list)

\* C1: the Total Percentage is guarded against division by zero: a run that
\* reaches save_to_excel with an empty AttendanceMap, whatever the roster,
\* raises no error of its own, writes a Total Percentage of 0.00% and then
\* writes the per-individual table.
C1_EmptyMapTotalGuarded ==
    (Terminal /\ result_dict = <<>> /\ error \notin EnvErrors)
        => /\ pc = "returned"
           /\ compiled.written
           /\ compiled.total = ZeroPct
           /\ individual.written

\* a leave row that parses: a datetime or a YYYY-MM-DD string in column 1,
\* nothing or a string in column 2
WellFormedLeaveRow(row) ==
    /\ \/ row[1].t = "datetime"
       \/ row[1].t = "str" /\ StrpTime(row[1].v) # ValueError
    /\ row[2].t \in {"none", "str"}

\* C2: a row-level parse error skips only that row: when read_leave_data
\* returns, the LeaveCalendar holds the emails of every well-formed row of
\* the sheet, those before and those after a row that fails to parse.
C2_BadRowSkipsOnlyItself ==
    (pc = "leave_return" /\ sheet.ok)
        => \A i \in 1..Len(sheet.rows) :
              WellFormedLeaveRow(sheet.rows[i])
                 => \A e \in LeaveRowEmails(sheet.rows[i]) :
                       /\ LeaveRowDate(sheet.rows[i]) \in DOMAIN leave_data
                       /\ e \in leave_data[LeaveRowDate(sheet.rows[i])]

\* C3: the leave merge is monotonic and creates no dates: after the merge
\* every date has a superset of the attendees it had before, the dates of
\* AttendanceMap are those it had before, in the same order, and the
\* per-date table has rows for those dates only.
C3_MergeMonotonic ==
    Merged =>
        /\ Len(result_dict) = Len(pre_merge)
        /\ \A i \in 1..Len(pre_merge) :
              /\ result_dict[i].date = pre_merge[i].date
              /\ pre_merge[i].attendees \subseteq result_dict[i].attendees
        /\ compiled.written =>
              \A i \in 1..Len(compiled.rows) :
                 \E d \in Keys(pre_merge) : compiled.rows[i].date = StrfTime(d)

\* the merge added someone on leave to a date that had attendees the leave
\* calendar does not name, and the calendar has a date the reports lack
C3_Witness ==
    /\ pc = "returned"
    /\ \E i \in 1..Len(pre_merge) :
          /\ pre_merge[i].date \in DOMAIN leave_data
          /\ pre_merge[i].attendees # result_dict[i].attendees
          /\ pre_merge[i].attendees \ leave_data[pre_merge[i].date] # {}
    /\ DOMAIN leave_data \ Keys(result_dict) # {}

\* C4: every attendee set of AttendanceMap holds roster emails only, in
\* every state of the scan, after the leave merge and in the tables written.
C4_OnlyRosterEmails ==
    /\ \A i \in 1..Len(result_dict) : result_dict[i].attendees \subseteq Roster
    /\ compiled.written =>
          \A i \in 1..Len(compiled.rows) :
             compiled.rows[i].attendees \subseteq Roster

\* a report row and the leave calendar both named someone off the roster on
\* a date that is in AttendanceMap
C4_Witness ==
    /\ pc = "returned"
    /\ \E d \in Keys(result_dict) \cap DOMAIN leave_data :
          /\ leave_data[d] \ Roster # {}
          /\ leave_data[d] \cap Roster # {}
          /\ \E p \in listed : p[1] = d /\ p[2] \notin Roster

\* C5: the per-date percentage is 100 * |A(d)| / |R| for the roster R taken
\* as the set of distinct emails supplied, and 0.00% when R is empty.
C5_PerDatePctOfDistinctRoster ==
    compiled.written =>
        \A i \in 1..Len(compiled.rows) :
           IF Cardinality(Roster) > 0
           THEN IsPctOf(compiled.rows[i].pct,
                        Cardinality(compiled.rows[i].attendees),
                        Cardinality(Roster))
           ELSE compiled.rows[i].pct = ZeroPct

\* C6: recording is idempotent under duplicates and independent of the scan
\* order: while the reports are scanned, AttendanceMap has each date once,
\* and the attendees of a date are the roster emails listed for it, however
\* often and in whichever file or folder of that date they were listed.
C6_IdempotentRecording ==
    pc \in {"folders", "files", "rows", "merge"} =>
        /\ \A i, j \in 1..Len(result_dict) :
              result_dict[i].date = result_dict[j].date => i = j
        /\ \A i \in 1..Len(result_dict) :
              result_dict[i].attendees =
                 {e \in Roster : <<result_dict[i].date, e>> \in listed}
        /\ \A p \in listed : p[2] \in Roster => p[1] \in Keys(result_dict)

\* the scan ended after a roster email was listed again for its date (in the
\* same file, another file or another folder of that date) and was recorded
\* once
C6_Witness ==
    /\ pc = "merge"
    /\ dup
    /\ \E i \in 1..Len(result_dict) :
          Cardinality(result_dict[i].attendees) = 1

\* C7 as claimed: every folder that passes the filters has its date as a key
\* of AttendanceMap and as a row of the per-date table, also when no row of
\* its reports carries a roster email.
C7_RowPerQualifyingFolder ==
    /\ Merged \/ pc = "merge" => qualified \subseteq Keys(result_dict)
    /\ compiled.written =>
          \A d \in qualified :
             \E i \in 1..Len(compiled.rows) : compiled.rows[i].date = StrfTime(d)

\* the dates of the qualifying folders in which a roster email was listed
AttendedDates == {d \in qualified : \E e \in Roster : <<d, e>> \in listed}

\* C7 amended: the keys of AttendanceMap are the dates of the qualifying
\* folders in which some report row carried a roster email, and the per-date
\* table has exactly one row for each of them; a qualifying folder without
\* such a row adds no key and no row.
C7_RowPerAttendedDate ==
    /\ Keys(result_dict) = AttendedDates
    /\ compiled.written =>
          /\ Len(compiled.rows) = Cardinality(AttendedDates)
          /\ \A d \in AttendedDates :
                \E i \in 1..Len(compiled.rows) :
                   compiled.rows[i].date = StrfTime(d)

\* the table was written with a row for one qualifying folder and none for
\* another, whose reports named nobody on the roster
C7_Witness ==
    /\ compiled.written
    /\ compiled.rows # <<>>
    /\ qualified \ Keys(result_dict) # {}

\* the attendees of any date, and the number of dates of an attendee
EverRecorded == UNION {result_dict[i].attendees : i \in 1..Len(result_dict)}

DatesOf(a) == Cardinality({i \in 1..Len(result_dict) : a \in result_dict[i].attendees})

\* C8: the per-individual table has exactly one row for each attendee that
\* occurs in any date's set and no other row, and the row's percentage is
\* 100 * (dates with the attendee) / (dates in AttendanceMap); with no dates
\* the table is written without rows and without a division error.
C8_IndividualRows ==
    individual.written =>
        /\ \A r \in BagToSet(individual.rows) :
              /\ r.attendee \in EverRecorded
              /\ CopiesIn(r, individual.rows) = 1
        /\ \A a \in EverRecorded :
              /\ Cardinality({r \in BagToSet(individual.rows) :
                                 r.attendee = a}) = 1
              /\ \A r \in BagToSet(individual.rows) :
                    r.attendee = a
                       => IsPctOf(r.pct, DatesOf(a), Len(result_dict))
        /\ result_dict = <<>> => individual.rows = EmptyBag

\* the table was written with an attendee seen on one date out of two
C8_Witness ==
    /\ individual.written
    /\ Len(result_dict) = 2
    /\ \E r \in BagToSet(individual.rows) :
          r.pct = <<"5", "0", ".", "0", "0", "%">>

\* the names generate_output_filename tries for a meeting, from 0
Candidate(meeting, n) ==
    IF n = 0 THEN BaseName(meeting) \o XlsxSuffix
    ELSE BaseName(meeting) \o <<"_">> \o IntToStr(n) \o XlsxSuffix

\* generate_output_filename returns the first free name of the sequence
C9_FirstFreeName ==
    (meeting_name # <<>>) =>
        \E n \in 0..Cardinality(files) :
           /\ GenerateOutputFilename(meeting_name, files)
                 = Candidate(meeting_name, n)
           /\ Candidate(meeting_name, n) \notin files
           /\ \A k \in 0..(n - 1) : Candidate(meeting_name, k) \in files

\* C9: generate_output_filename returns the first free name of base.xlsx,
\* base_1.xlsx, ..., and no file that exists is overwritten by the run.
C9_NoExistingFileOverwritten ==
    /\ C9_FirstFreeName
    /\ clobbered = {}

\* inside the with block of compile_attendee_data
InsideWith ==
    pc \in {"extract_zip", "list_top", "folders", "files", "rows", "merge",
            "save_to_excel", "save_individual"}

\* C10: the scratch directory exists while compile_attendee_data is inside
\* its with block and no longer exists once the function has returned or
\* raised, whichever statement raised.
C10_ScratchRemoved ==
    /\ InsideWith => tmp_exists
    /\ Terminal => ~tmp_exists

\* the second table could not be saved after the first was
C10_Witness ==
    /\ pc = "raised"
    /\ error = "OSError"
    /\ compiled.written

====
